---- MODULE Spec2Model ----
(***************************************************************************)
(* Model of the EncryptedOracleFHE contract                                *)
(* (src/contracts/EncryptedOracleFHE.sol): the encrypted-data lifecycle    *)
(* and the decryption request / callback protocol.                         *)
(*                                                                         *)
(* Every public function of the contract is one action.  A Solidity        *)
(* transaction either runs to its end or reverts; a reverted transaction   *)
(* leaves the contract storage and the event log as they were.  The        *)
(* variable lastCall records the last call made and how it ended, so that  *)
(* a reverted call is visible in the behaviour.                            *)
(***************************************************************************)
EXTENDS Integers, Sequences, FiniteSets, TLC

(***************************************************************************)
(* Bounds of the model.                                                    *)
(***************************************************************************)
\* Largest value of the id counter: stands for type(uint256).max, where the
\* checked addition `dataCount += 1` reverts with Panic(0x11).
MaxData == 2
\* Number of request identifiers the decryption oracle hands out.
MaxRequests == 2
\* Number of callbacks that run to their end in one behaviour, from which
\* on no request id is used a second time; the first callback of a request
\* id is never held back.
MaxDecrypts == 2
\* Largest block timestamp.
MaxTime == 2

(***************************************************************************)
(* Value domains.                                                          *)
(***************************************************************************)
\* Length in bytes of one ABI word.
AbiWord == 32

\* Keys of the mappings encryptedData and decryptedData that the model
\* follows.  Key 0 and keys above dataCount are keys of slots never written
\* by submitEncryptedData.
DataIds == 0..MaxData
\* Identifiers the decryption oracle can return, and that a caller of the
\* callback can present (issued or not).
RequestIds == 1..MaxRequests
\* euint32 handles a source can submit; 0 is the uninitialised handle.
Handles == {11, 12}
NoHandle == 0
\* `bytes cleartexts`: its length in bytes and its first ABI word, the word
\* split into its low 32 bits (low) and the 224 bits above them (high).
Cleartexts ==
    { [len |-> AbiWord, high |-> 0, low |-> 7],
      [len |-> AbiWord, high |-> 0, low |-> 9],
      [len |-> AbiWord, high |-> 1, low |-> 7],
      [len |-> 0, high |-> 0, low |-> 0] }
\* `bytes proof`: what FHE.checkSignatures answers for it.
Proofs == {"validProof", "invalidProof"}
\* msg.sender of a decryption request: a party the operator of the oracle
\* has authorized to decrypt results, or anyone else.
Callers == {"authorizedParty", "outsider"}

VARIABLES
    dataCount,        \* uint256 public dataCount
    encryptedData,    \* mapping(uint256 => EncryptedDataPoint)
    decryptedData,    \* mapping(uint256 => DecryptedDataPoint)
    requestToDataId,  \* mapping(uint256 => uint256), 0 where never written
    requestCounter,   \* next request id of the decryption oracle
    dispatched,       \* requests handed to the decryption oracle, in order
    consumed,         \* request ids whose callback has run to its end
    events,           \* the event log of the contract
    now,              \* block.timestamp
    lastCall          \* the last call and its outcome

vars == << dataCount, encryptedData, decryptedData, requestToDataId,
           requestCounter, dispatched, consumed, events, now, lastCall >>

\* The storage of the contract and what it has emitted or dispatched:
\* everything a reverted transaction leaves unchanged.
storage == << dataCount, encryptedData, decryptedData, requestToDataId,
              requestCounter, dispatched, consumed, events >>

(***************************************************************************)
(* Default (zero) values of the two structs.                               *)
(***************************************************************************)
ZeroEncrypted == [id |-> 0, encryptedValue |-> NoHandle, timestamp |-> 0]
ZeroDecrypted == [value |-> 0, isRevealed |-> FALSE]

(***************************************************************************)
(* Events.                                                                 *)
(***************************************************************************)
DataSubmitted(id, timestamp) ==
    [name |-> "DataSubmitted", id |-> id, timestamp |-> timestamp]
DecryptionRequested(id) == [name |-> "DecryptionRequested", id |-> id]
DataDecrypted(id) == [name |-> "DataDecrypted", id |-> id]

EventIds(name) ==
    { i \in 1..Len(events) : events[i].name = name }

(***************************************************************************)
(* The web frontend (src/frontend/web/src/App.tsx).  It keeps its records  *)
(* in a key-value store reached through contract.getData / setData: one    *)
(* record under "oracle_<id>" and the list of ids under "oracle_keys".     *)
(* Every handler is an async function: it gives up control at each await,  *)
(* so runs of the handlers interleave at those points.  The handlers are   *)
(* modelled with a connected wallet (provider set).                        *)
(***************************************************************************)
\* Number of records the frontend submits in one behaviour.
MaxRecords == 2
\* Number of aggregateData runs under way at the same time: the Aggregate
\* button is not disabled while a run is under way, and several sessions
\* can share the store.
MaxAggregates == 2

\* The ids `${Date.now()}-${random}` of the records, one per submitData run.
RecordIds == 1..MaxRecords
AggRuns == 1..MaxAggregates
\* What the user types as newData.value.
Plaintexts == {"a", "b"}
\* getData returns zero bytes for a key never set.
NoRecord == [status |-> "absent"]
\* How the first three awaits of loadOracleData can end.
LoadAnswers == {"keys", "noContract", "unavailable", "throws"}

VARIABLES
    chainKeys,          \* the parsed value stored under "oracle_keys"
    chainData,          \* the parsed value stored under "oracle_<id>"
    appNow,             \* Math.floor(Date.now() / 1000)
    subPc,              \* per submitData run: where it stands
    subKeys,            \* per submitData run: its local `keys`
    aggPc,              \* per aggregateData run: where it stands
    aggKeys,            \* per aggregateData run: its local `keys`
    aggIdx,             \* per aggregateData run: position in `keys`
    aggData,            \* per aggregateData run: its local `data`
    aggMarked,          \* per aggregateData run: the keys it has written
    decPc,              \* the decryptData run: where it stands
    decId,              \* the decryptData run: its argument dataId
    decData,            \* the decryptData run: its local `data`
    loadPc,             \* the loadOracleData run: where it stands
    loadKeys,           \* the loadOracleData run: its local `keys`
    loadIdx,            \* the loadOracleData run: position in `keys`
    loadList,           \* the loadOracleData run: its local `list`
    oracleData,         \* the React state oracleData
    isRefreshing,       \* the React state isRefreshing
    loading,            \* the React state loading
    transactionStatus   \* the React state transactionStatus

\* The key-value store behind contract.getData / contract.setData.
chainStore == << chainKeys, chainData >>
subVars == << subPc, subKeys >>
aggVars == << aggPc, aggKeys, aggIdx, aggData, aggMarked >>
decVars == << decPc, decId, decData >>
loadVars == << loadPc, loadKeys, loadIdx, loadList >>
\* What the page shows of the loaded records.
viewVars == << oracleData, isRefreshing, loading >>

appVars == << chainKeys, chainData, appNow, subPc, subKeys, aggPc, aggKeys,
              aggIdx, aggData, aggMarked, decPc, decId, decData,
              loadPc, loadKeys, loadIdx, loadList,
              oracleData, isRefreshing, loading, transactionStatus >>

AppInit ==
    /\ chainKeys = << >>
    /\ chainData = [k \in RecordIds |-> NoRecord]
    /\ appNow = 1
    /\ subPc = [k \in RecordIds |-> "idle"]
    /\ subKeys = [k \in RecordIds |-> << >>]
    /\ aggPc = [a \in AggRuns |-> "idle"]
    /\ aggKeys = [a \in AggRuns |-> << >>]
    /\ aggIdx = [a \in AggRuns |-> 0]
    /\ aggData = [a \in AggRuns |-> NoRecord]
    /\ aggMarked = [a \in AggRuns |-> {}]
    /\ decPc = "idle"
    /\ decId = 0
    /\ decData = NoRecord
    /\ loadPc = "idle"
    /\ loadKeys = << >>
    /\ loadIdx = 0
    /\ loadList = << >>
    /\ oracleData = << >>
    /\ isRefreshing = FALSE
    /\ loading = TRUE
    /\ transactionStatus =
          [visible |-> FALSE, status |-> "pending", message |-> ""]

(***************************************************************************)
(* The dashboard page (part_001): its React state and its handlers' runs.  *)
(***************************************************************************)
\* Number of items addData creates in one behaviour.
MaxItems == 2

\* The ids `${Date.now()}` of the items, in the order of their creation.
ItemIds == 1..MaxItems
\* How the awaits of loadData before its timer can end: the dashboard's own
\* getContractReadOnly returns an object whose isAvailable resolves to true,
\* and neither throws.
LoadDataAnswers == {"available"}

VARIABLES
    account,            \* the React state account: a wallet is connected
    dataItems,          \* the React state dataItems
    adding,             \* the React state adding
    addPc,              \* the addData run: where it stands
    addedIds,           \* the ids of the items addData has put in the list
    decryptPc,          \* per item: where its decryptData run stands
    decryptClosure,     \* per item: the dataItems its run closed over
    loadDataPc,         \* the loadData run: where it stands
    loadDataEnded,      \* a loadData run has come to its end
    dashIsRefreshing,   \* the React state isRefreshing of the dashboard
    dashStatus          \* the React state transactionStatus of the dashboard

dashVars == << account, dataItems, adding, addPc, addedIds, decryptPc,
               decryptClosure, loadDataPc, loadDataEnded, dashIsRefreshing,
               dashStatus >>

\* What a step of the contract leaves alone, and what a step of the
\* frontend leaves alone.
outsideContract == << appVars, dashVars >>
outsideApp == << vars, dashVars >>

DashboardInit ==
    /\ account = FALSE
    /\ dataItems = << >>
    /\ adding = FALSE
    /\ addPc = "idle"
    /\ addedIds = {}
    /\ decryptPc = [id \in ItemIds |-> "idle"]
    /\ decryptClosure = [id \in ItemIds |-> << >>]
    /\ loadDataPc = "idle"
    /\ loadDataEnded = FALSE
    /\ dashIsRefreshing = FALSE
    /\ dashStatus = [visible |-> FALSE, status |-> "pending", message |-> ""]

\* The contract after deployment.
ContractInit ==
    /\ dataCount = 0
    /\ encryptedData = [d \in DataIds |-> ZeroEncrypted]
    /\ decryptedData = [d \in DataIds |-> ZeroDecrypted]
    /\ requestToDataId = [r \in RequestIds |-> 0]
    /\ requestCounter = 1
    /\ dispatched = << >>
    /\ consumed = {}
    /\ events = << >>
    /\ now = 1
    /\ lastCall = [op |-> "constructor", result |-> "ok"]

Init ==
    /\ AppInit
    /\ ContractInit
    /\ DashboardInit

(***************************************************************************)
(* submitEncryptedData                                                     *)
(***************************************************************************)
\* The counter left as it is: the increment forgotten.
NextId_NoIncrement(count) == count

\* The counter set to one instead of raised by one.
NextId_Restart(count) == 1

\* `dataCount += 1; uint256 newId = dataCount;`
NextId(count) == count + 1

\* The addition inside `unchecked { .. }`: it never reverts.
CounterOverflows_Unchecked(count) == FALSE

\* The checked addition overflows at the largest counter value.
CounterOverflows(count) == NextId(count) > MaxData

\* One transaction calling submitEncryptedData; blockTime is the timestamp
\* of the block that holds it.
submitEncryptedData(encryptedValue, blockTime) ==
    LET newId == NextId(dataCount)
    IN  IF CounterOverflows(dataCount)
        THEN /\ lastCall' = [op |-> "submitEncryptedData",
                             encryptedValue |-> encryptedValue,
                             result |-> "Panic(0x11)"]
             /\ UNCHANGED << storage, now >>
        ELSE /\ dataCount' = newId
             /\ encryptedData' = [encryptedData EXCEPT ![newId] =
                    [id |-> newId, encryptedValue |-> encryptedValue,
                     timestamp |-> blockTime]]
             /\ decryptedData' = [decryptedData EXCEPT ![newId] =
                    [value |-> 0, isRevealed |-> FALSE]]
             /\ events' = Append(events, DataSubmitted(newId, blockTime))
             /\ now' = blockTime
             /\ lastCall' = [op |-> "submitEncryptedData",
                             encryptedValue |-> encryptedValue,
                             result |-> "ok", newId |-> newId]
             /\ UNCHANGED << requestToDataId, requestCounter, dispatched,
                             consumed >>

(***************************************************************************)
(* requestDataDecryption                                                   *)
(***************************************************************************)
\* The guard left out: every request is let through.
NotYetRevealed_NoGuard(dataId) == TRUE

\* `require(!decryptedData[dataId].isRevealed, "Already decrypted")`
NotYetRevealed(dataId) == ~decryptedData[dataId].isRevealed

\* The word of the uninitialised handle sent instead of the data point's.
ToBytes32_Uninitialised(handle) == NoHandle

\* `FHE.toBytes32(dataPoint.encryptedValue)`: the handle itself, as a word.
ToBytes32(handle) == handle

\* "Access Control: Only authorized parties can decrypt results".
Authorized(sender, dataId) == sender = "authorizedParty"

\* `modifier onlySource(uint256 dataId) { _; }`: the body runs for every
\* sender.
onlySource(sender, dataId) == TRUE

requestDataDecryption(sender, dataId) ==
    LET dataPoint == encryptedData[dataId]
        reqId == requestCounter
    IN  IF ~onlySource(sender, dataId)
        THEN /\ lastCall' = [op |-> "requestDataDecryption",
                             sender |-> sender, dataId |-> dataId,
                             result |-> "Unauthorized"]
             /\ UNCHANGED << storage, now >>
        ELSE IF ~NotYetRevealed(dataId)
        THEN /\ lastCall' = [op |-> "requestDataDecryption",
                             sender |-> sender, dataId |-> dataId,
                             result |-> "Already decrypted"]
             /\ UNCHANGED << storage, now >>
        ELSE /\ requestCounter <= MaxRequests
             /\ requestCounter' = requestCounter + 1
             /\ dispatched' = Append(dispatched,
                    [requestId |-> reqId,
                     ciphertexts |-> << ToBytes32(dataPoint.encryptedValue) >>,
                     dataId |-> dataId])
             /\ requestToDataId' = [requestToDataId EXCEPT ![reqId] = dataId]
             /\ events' = Append(events, DecryptionRequested(dataId))
             /\ lastCall' = [op |-> "requestDataDecryption",
                             sender |-> sender, dataId |-> dataId,
                             result |-> "ok", reqId |-> reqId]
             /\ UNCHANGED << dataCount, encryptedData, decryptedData,
                             consumed, now >>

\* The request ids the decryption oracle has returned so far.
IssuedRequests == { r \in RequestIds : r < requestCounter }

(***************************************************************************)
(* decryptDataPoint: the callback                                          *)
(***************************************************************************)
\* One slot for the pending target instead of a table keyed by request id:
\* every callback is taken to be for the last request issued.
CallbackTarget_LastIssued(requestId) ==
    IF requestCounter > 1 THEN requestToDataId[requestCounter - 1] ELSE 0

\* The callbacks taken to arrive one at a time before any other request is
\* made: every callback is for the first request issued.
CallbackTarget_FirstIssued(requestId) == requestToDataId[1]

\* `uint256 dataId = requestToDataId[requestId];`
CallbackTarget(requestId) == requestToDataId[requestId]

\* `FHE.checkSignatures(requestId, cleartexts, proof)` returns or reverts.
checkSignatures(requestId, cleartexts, proof) == proof = "validProof"

\* The word cut to its low 32 bits without any check.
AbiDecodable_Unchecked(cleartexts) == TRUE

\* `abi.decode(cleartexts, (uint32))` reverts when the data is shorter than
\* one word or the word has a bit set above the low 32.
AbiDecodable(cleartexts) ==
    /\ cleartexts.len >= AbiWord
    /\ cleartexts.high = 0

AbiDecode(cleartexts) == cleartexts.low

\* The signatures checked before the request id is looked up.
DecryptOutcome_VerifyFirst(requestId, cleartexts, proof) ==
    IF ~checkSignatures(requestId, cleartexts, proof)
    THEN "VerificationFailed"
    ELSE IF CallbackTarget(requestId) = 0 THEN "Invalid request"
    ELSE IF ~AbiDecodable(cleartexts) THEN "DecodeError"
    ELSE "ok"

\* The call of FHE.checkSignatures left out.
DecryptOutcome_NoVerify(requestId, cleartexts, proof) ==
    IF CallbackTarget(requestId) = 0 THEN "Invalid request"
    ELSE IF ~AbiDecodable(cleartexts) THEN "DecodeError"
    ELSE "ok"

\* The check `require(dataId != 0, "Invalid request")` left out.
DecryptOutcome_NoLookupCheck(requestId, cleartexts, proof) ==
    IF ~checkSignatures(requestId, cleartexts, proof)
    THEN "VerificationFailed"
    ELSE IF ~AbiDecodable(cleartexts) THEN "DecodeError"
    ELSE "ok"

\* How the callback ends: the checks in the order the function makes them.
DecryptOutcome(requestId, cleartexts, proof) ==
    IF CallbackTarget(requestId) = 0 THEN "Invalid request"
    ELSE IF ~checkSignatures(requestId, cleartexts, proof)
         THEN "VerificationFailed"
    ELSE IF ~AbiDecodable(cleartexts) THEN "DecodeError"
    ELSE "ok"

\* The value stored and the flag forgotten.
RevealedPoint_FlagForgotten(value) == [value |-> value, isRevealed |-> FALSE]

\* `decryptedData[dataId].value = value;
\*  decryptedData[dataId].isRevealed = true;`
RevealedPoint(value) == [value |-> value, isRevealed |-> TRUE]

\* A callback that does not revert on a failed check but forgets the
\* request: the entry of the request id is deleted.
decryptDataPoint_ForgetOnFailure(requestId, cleartexts, proof) ==
    LET dataId == CallbackTarget(requestId)
        outcome == DecryptOutcome(requestId, cleartexts, proof)
        call == [op |-> "decryptDataPoint", requestId |-> requestId,
                 cleartexts |-> cleartexts, proof |-> proof,
                 result |-> outcome]
    IN  IF outcome # "ok"
        THEN /\ lastCall' = call
             /\ requestToDataId' = [requestToDataId EXCEPT ![requestId] = 0]
             /\ UNCHANGED << dataCount, encryptedData, decryptedData,
                             requestCounter, dispatched, consumed, events,
                             now >>
        ELSE /\ requestId \in consumed =>
                    Cardinality(EventIds("DataDecrypted")) < MaxDecrypts
             /\ decryptedData' = [decryptedData EXCEPT ![dataId] =
                    RevealedPoint(AbiDecode(cleartexts))]
             /\ events' = Append(events, DataDecrypted(dataId))
             /\ consumed' = consumed \cup {requestId}
             /\ lastCall' = call
             /\ UNCHANGED << dataCount, encryptedData, requestToDataId,
                             requestCounter, dispatched, now >>

decryptDataPoint(requestId, cleartexts, proof) ==
    LET dataId == CallbackTarget(requestId)
        outcome == DecryptOutcome(requestId, cleartexts, proof)
        call == [op |-> "decryptDataPoint", requestId |-> requestId,
                 cleartexts |-> cleartexts, proof |-> proof,
                 result |-> outcome]
    IN  IF outcome # "ok"
        THEN /\ lastCall' = call
             /\ UNCHANGED << storage, now >>
        ELSE /\ requestId \in consumed =>
                    Cardinality(EventIds("DataDecrypted")) < MaxDecrypts
             /\ decryptedData' = [decryptedData EXCEPT ![dataId] =
                    RevealedPoint(AbiDecode(cleartexts))]
             /\ events' = Append(events, DataDecrypted(dataId))
             /\ consumed' = consumed \cup {requestId}
             /\ lastCall' = call
             /\ UNCHANGED << dataCount, encryptedData, requestToDataId,
                             requestCounter, dispatched, now >>

(***************************************************************************)
(* getDecryptedData: a view                                                *)
(***************************************************************************)
\* `return (dp.value, dp.isRevealed);`
ReadResult(dataId) ==
    LET dp == decryptedData[dataId]
    IN  [value |-> dp.value, isRevealed |-> dp.isRevealed]

getDecryptedData(dataId) ==
    /\ lastCall' = [op |-> "getDecryptedData", dataId |-> dataId,
                    result |-> "ok",
                    value |-> ReadResult(dataId).value,
                    isRevealed |-> ReadResult(dataId).isRevealed]
    /\ UNCHANGED << storage, now >>

Next ==
    \/ \E encryptedValue \in Handles, blockTime \in now..MaxTime :
          submitEncryptedData(encryptedValue, blockTime)
          /\ UNCHANGED outsideContract
    \/ \E sender \in Callers, dataId \in DataIds :
          requestDataDecryption(sender, dataId) /\ UNCHANGED outsideContract
    \/ \E requestId \in RequestIds, cleartexts \in Cleartexts, proof \in Proofs :
          decryptDataPoint(requestId, cleartexts, proof)
          /\ UNCHANGED outsideContract
    \/ \E dataId \in DataIds :
          getDecryptedData(dataId) /\ UNCHANGED outsideContract

Spec == Init /\ [][Next]_vars

(***************************************************************************)
(* The decryption oracle as a fair transport: for every request it has     *)
(* been handed and that has not been answered, it goes on calling the      *)
(* callback with a proof that verifies and a payload that decodes.  The    *)
(* contract itself has no timer and makes no call of its own.              *)
(***************************************************************************)
Deliver(requestId) ==
    /\ requestId \in IssuedRequests
    /\ requestId \notin consumed
    /\ \E cleartexts \in Cleartexts :
          /\ AbiDecodable(cleartexts)
          /\ decryptDataPoint(requestId, cleartexts, "validProof")
    /\ UNCHANGED outsideContract

SpecFairDelivery ==
    /\ Init
    /\ [][Next]_vars
    /\ \A requestId \in RequestIds : WF_vars(Deliver(requestId))

(***************************************************************************)
(* loadOracleData (App.tsx)                                                *)
(*                                                                         *)
(* The function is called by the mount effect, by the Refresh button and   *)
(* as the last statement of the try block of submitData, aggregateData     *)
(* and decryptData.  The model follows one run of it at a time: a call     *)
(* made while a run is under way is taken up by that run.                  *)
(***************************************************************************)
\* The entry pushed on `list` for the record read under key.
ListItem(key, data) ==
    [id |-> key, encryptedValue |-> data.value, timestamp |-> data.timestamp,
     status |-> data.status,
     decryptedValue |-> IF "decryptedValue" \in DOMAIN data
                        THEN data.decryptedValue
                        ELSE "undefined"]

\* item put into a list ordered by `b.timestamp - a.timestamp`, behind the
\* entries that do not sort after it (Array.prototype.sort is stable).
RECURSIVE InsertByTimestamp(_, _)
InsertByTimestamp(list, item) ==
    IF list = << >> THEN << item >>
    ELSE IF Head(list).timestamp >= item.timestamp
         THEN << Head(list) >> \o InsertByTimestamp(Tail(list), item)
    ELSE << item >> \o list

\* `list.sort((a, b) => b.timestamp - a.timestamp)`
RECURSIVE SortByTimestamp(_)
SortByTimestamp(list) ==
    IF list = << >> THEN << >>
    ELSE InsertByTimestamp(
             SortByTimestamp(SubSeq(list, 1, Len(list) - 1)),
             list[Len(list)])

\* `setIsRefreshing(true)` and the entry into the try block: what a call of
\* loadOracleData does to the run of the model.
CallLoadOracleData ==
    /\ isRefreshing' = TRUE
    /\ IF loadPc = "idle"
       THEN /\ loadPc' = "started"
            /\ UNCHANGED << loadKeys, loadIdx, loadList >>
       ELSE UNCHANGED loadVars
    /\ UNCHANGED << oracleData, loading >>

\* The mount effect or a click on Refresh.
LoadBegin ==
    /\ loadPc = "idle"
    /\ CallLoadOracleData
    /\ UNCHANGED << chainStore, appNow, subVars, aggVars, decVars, transactionStatus >>

\* getContractReadOnly, isAvailable and getData("oracle_keys").  answer is
\* what they give: the key list, no contract, a contract that is not
\* available, or an exception.  All but the first end the run through the
\* finally block.
LoadReadKeys(answer) ==
    /\ loadPc = "started"
    /\ IF answer = "keys"
       THEN /\ loadKeys' = chainKeys
            /\ loadIdx' = 1
            /\ loadPc' = "loop"
            /\ UNCHANGED << loadList, viewVars >>
       ELSE /\ loadPc' = "idle"
            /\ isRefreshing' = FALSE
            /\ loading' = FALSE
            /\ UNCHANGED << loadKeys, loadIdx, loadList, oracleData >>
    /\ UNCHANGED << chainStore, appNow, subVars, aggVars, decVars, transactionStatus >>

\* One pass of the loop: `await contract.getData("oracle_<key>")`; readable
\* is FALSE when the call throws, which the loop logs and passes over.
LoadReadRecord(readable) ==
    /\ loadPc = "loop"
    /\ loadIdx <= Len(loadKeys)
    /\ LET key == loadKeys[loadIdx]
           data == chainData[key]
       IN  loadList' = IF readable /\ data # NoRecord
                       THEN Append(loadList, ListItem(key, data))
                       ELSE loadList
    /\ loadIdx' = loadIdx + 1
    /\ UNCHANGED << loadPc, loadKeys, viewVars, chainStore, appNow, subVars,
                    aggVars, decVars, transactionStatus >>

\* The ids of the loaded entries written back as the key list before the
\* run ends.
LoadFinish_WritesBack ==
    /\ loadPc = "loop"
    /\ loadIdx > Len(loadKeys)
    /\ chainKeys' = [i \in 1..Len(loadList) |-> loadList[i].id]
    /\ oracleData' = SortByTimestamp(loadList)
    /\ isRefreshing' = FALSE
    /\ loading' = FALSE
    /\ loadPc' = "idle"
    /\ loadKeys' = << >>
    /\ loadIdx' = 0
    /\ loadList' = << >>
    /\ UNCHANGED << chainData, appNow, subVars, aggVars, decVars, transactionStatus >>

\* The sort, setOracleData and the finally block.
LoadFinish ==
    /\ loadPc = "loop"
    /\ loadIdx > Len(loadKeys)
    /\ oracleData' = SortByTimestamp(loadList)
    /\ isRefreshing' = FALSE
    /\ loading' = FALSE
    /\ loadPc' = "idle"
    /\ loadKeys' = << >>
    /\ loadIdx' = 0
    /\ loadList' = << >>
    /\ UNCHANGED << chainStore, appNow, subVars, aggVars, decVars, transactionStatus >>

(***************************************************************************)
(* submitData (App.tsx)                                                    *)
(***************************************************************************)
\* `FHE-${btoa(newData.value)}`
SimulatedEncrypt(plain) == << "FHE-", plain >>

\* A submitData that lists the key of a record it did not store.
NewRecord_NotStored(plain, timestamp) == NoRecord

\* The object stored for a new record; its source is stored with it and is
\* read by no handler.
NewRecord(plain, timestamp) ==
    [value |-> SimulatedEncrypt(plain), timestamp |-> timestamp,
     status |-> "pending"]

StatusPending(message) ==
    [visible |-> TRUE, status |-> "pending", message |-> message]
StatusSuccess(message) ==
    [visible |-> TRUE, status |-> "success", message |-> message]
StatusError(message) ==
    [visible |-> TRUE, status |-> "error", message |-> message]

\* From the click to the end of `await contract.setData("oracle_<id>", ..)`;
\* written is FALSE when getContractWithSigner or setData throws.
SubmitStoreRecord(k, plain, timestamp, written) ==
    /\ subPc[k] = "idle"
    /\ appNow' = timestamp
    /\ IF written
       THEN /\ chainData' = [chainData EXCEPT ![k] = NewRecord(plain, timestamp)]
            /\ subPc' = [subPc EXCEPT ![k] = "stored"]
            /\ transactionStatus' = StatusPending("Encrypting data with FHE...")
       ELSE /\ subPc' = [subPc EXCEPT ![k] = "failed"]
            /\ transactionStatus' = StatusError("Submission failed")
            /\ UNCHANGED chainData
    /\ UNCHANGED << chainKeys, subKeys, aggVars, decVars, loadVars, viewVars >>

\* `await contract.getData("oracle_keys")`, the parse and `keys.push(dataId)`.
SubmitReadKeys(k) ==
    /\ subPc[k] = "stored"
    /\ subKeys' = [subKeys EXCEPT ![k] = Append(chainKeys, k)]
    /\ subPc' = [subPc EXCEPT ![k] = "haveKeys"]
    /\ UNCHANGED << chainStore, appNow, aggVars, decVars, loadVars, viewVars,
                    transactionStatus >>

\* `await contract.setData("oracle_keys", ..)`, the success status and the
\* call of loadOracleData; written is FALSE when setData throws.
SubmitWriteKeys(k, written) ==
    /\ subPc[k] = "haveKeys"
    /\ IF written
       THEN /\ chainKeys' = subKeys[k]
            /\ subPc' = [subPc EXCEPT ![k] = "done"]
            /\ transactionStatus' =
                  StatusSuccess("Encrypted data submitted successfully!")
            /\ CallLoadOracleData
       ELSE /\ subPc' = [subPc EXCEPT ![k] = "failed"]
            /\ transactionStatus' = StatusError("Submission failed")
            /\ UNCHANGED << chainKeys, loadVars, viewVars >>
    /\ UNCHANGED << chainData, appNow, subKeys, aggVars, decVars >>

(***************************************************************************)
(* aggregateData (App.tsx)                                                 *)
(***************************************************************************)
\* `if (data.status === "pending") { data.status = "aggregated"; .. }`
AggregateRecord(data) ==
    IF data.status = "pending"
    THEN [data EXCEPT !.status = "aggregated"]
    ELSE data

\* The store after the loop `for (const key of keys)` has run over keys
\* with every setData succeeding and no other run writing in between.
RECURSIVE AggregateAll(_, _)
AggregateAll(data, keys) ==
    IF keys = << >> THEN data
    ELSE LET key == Head(keys)
         IN  AggregateAll(
                 IF data[key] = NoRecord THEN data
                 ELSE [data EXCEPT ![key] = AggregateRecord(data[key])],
                 Tail(keys))

\* A click on Aggregate: the status shown, then the simulated computation
\* time.  Run a + 1 is a click made while run a is under way.
AggregateStart(a) ==
    /\ aggPc[a] = "idle"
    /\ \A b \in AggRuns : b < a => aggPc[b] # "idle"
    /\ aggPc' = [aggPc EXCEPT ![a] = "delay"]
    /\ transactionStatus' =
          StatusPending("Aggregating encrypted data with FHE...")
    /\ UNCHANGED << chainStore, appNow, subVars, aggKeys, aggIdx, aggData,
                    aggMarked, decVars, loadVars, viewVars >>

\* getContractWithSigner and `await contract.getData("oracle_keys")`;
\* gotContract is FALSE when no contract is returned.
AggregateReadKeys(a, gotContract) ==
    /\ aggPc[a] = "delay"
    /\ IF gotContract
       THEN /\ aggKeys' = [aggKeys EXCEPT ![a] = chainKeys]
            /\ aggIdx' = [aggIdx EXCEPT ![a] = 1]
            /\ aggPc' = [aggPc EXCEPT ![a] = "loop"]
            /\ UNCHANGED transactionStatus
       ELSE /\ aggPc' = [aggPc EXCEPT ![a] = "idle"]
            /\ transactionStatus' = StatusError("Aggregation failed")
            /\ UNCHANGED << aggKeys, aggIdx >>
    /\ UNCHANGED << chainStore, appNow, subVars, aggData, aggMarked, decVars,
                    loadVars, viewVars >>

\* One pass of the loop head: `await contract.getData("oracle_<key>")`.
AggregateReadRecord(a) ==
    /\ aggPc[a] = "loop"
    /\ aggIdx[a] <= Len(aggKeys[a])
    /\ LET data == chainData[aggKeys[a][aggIdx[a]]]
       IN  IF data # NoRecord /\ data.status = "pending"
           THEN /\ aggData' = [aggData EXCEPT ![a] = AggregateRecord(data)]
                /\ aggPc' = [aggPc EXCEPT ![a] = "write"]
                /\ UNCHANGED aggIdx
           ELSE /\ aggIdx' = [aggIdx EXCEPT ![a] = aggIdx[a] + 1]
                /\ UNCHANGED << aggData, aggPc >>
    /\ UNCHANGED << chainStore, appNow, subVars, aggKeys, aggMarked, decVars,
                    loadVars, viewVars, transactionStatus >>

\* `await contract.setData("oracle_<key>", ..)`; written is FALSE when it
\* throws, which ends the run in the catch block.
AggregateWriteRecord(a, written) ==
    /\ aggPc[a] = "write"
    /\ IF written
       THEN /\ chainData' =
                  [chainData EXCEPT ![aggKeys[a][aggIdx[a]]] = aggData[a]]
            /\ aggMarked' = [aggMarked EXCEPT
                                ![a] = @ \cup {aggKeys[a][aggIdx[a]]}]
            /\ aggIdx' = [aggIdx EXCEPT ![a] = aggIdx[a] + 1]
            /\ aggPc' = [aggPc EXCEPT ![a] = "loop"]
            /\ UNCHANGED << aggKeys, transactionStatus >>
       ELSE /\ aggPc' = [aggPc EXCEPT ![a] = "idle"]
            /\ aggKeys' = [aggKeys EXCEPT ![a] = << >>]
            /\ aggIdx' = [aggIdx EXCEPT ![a] = 0]
            /\ aggMarked' = [aggMarked EXCEPT ![a] = {}]
            /\ transactionStatus' = StatusError("Aggregation failed")
            /\ UNCHANGED chainData
    /\ aggData' = [aggData EXCEPT ![a] = NoRecord]
    /\ UNCHANGED << chainKeys, appNow, subVars, decVars, loadVars, viewVars >>

\* The loop is over: the success status is shown, loadOracleData is called
\* and the run ends.
AggregateFinish(a) ==
    /\ aggPc[a] = "loop"
    /\ aggIdx[a] > Len(aggKeys[a])
    /\ aggPc' = [aggPc EXCEPT ![a] = "idle"]
    /\ aggKeys' = [aggKeys EXCEPT ![a] = << >>]
    /\ aggIdx' = [aggIdx EXCEPT ![a] = 0]
    /\ aggMarked' = [aggMarked EXCEPT ![a] = {}]
    /\ transactionStatus' =
          StatusSuccess("FHE aggregation completed successfully!")
    /\ CallLoadOracleData
    /\ UNCHANGED << chainStore, appNow, subVars, aggData, decVars >>

(***************************************************************************)
(* decryptData (App.tsx)                                                   *)
(***************************************************************************)
\* `atob(data.value.substring(4))` when data.value starts with "FHE-".
SimulatedDecrypt(value) ==
    IF value[1] = "FHE-" THEN value[2] ELSE "Decryption failed"

\* `data.decryptedValue = ..; data.status = "decrypted";`
DecryptRecord(data) ==
    [value |-> data.value, timestamp |-> data.timestamp,
     status |-> "decrypted", decryptedValue |-> SimulatedDecrypt(data.value)]

\* The rows of the table that carry a Decrypt button.
Decryptable ==
    { oracleData[i].id : i \in { j \in 1..Len(oracleData) :
                                   oracleData[j].status = "aggregated" } }

\* A click on the Decrypt button of row dataId: the status shown, then the
\* simulated computation time.
DecryptStart(dataId) ==
    /\ decPc = "idle"
    /\ dataId \in Decryptable
    /\ decPc' = "delay"
    /\ decId' = dataId
    /\ transactionStatus' = StatusPending("Decrypting data with FHE...")
    /\ UNCHANGED << chainStore, appNow, subVars, aggVars, decData, loadVars,
                    viewVars >>

\* getContractWithSigner and `await contract.getData("oracle_<dataId>")`;
\* gotContract is FALSE when no contract is returned.
DecryptReadRecord(gotContract) ==
    /\ decPc = "delay"
    /\ IF gotContract /\ chainData[decId] # NoRecord
       THEN /\ decData' = DecryptRecord(chainData[decId])
            /\ decPc' = "write"
            /\ UNCHANGED << decId, transactionStatus >>
       ELSE /\ decPc' = "idle"
            /\ decId' = 0
            /\ transactionStatus' = StatusError("Decryption failed")
            /\ UNCHANGED decData
    /\ UNCHANGED << chainStore, appNow, subVars, aggVars, loadVars,
                    viewVars >>

\* `await contract.setData("oracle_<dataId>", ..)`, the success status and
\* the call of loadOracleData; written is FALSE when setData throws.
DecryptWriteRecord(written) ==
    /\ decPc = "write"
    /\ IF written
       THEN /\ chainData' = [chainData EXCEPT ![decId] = decData]
            /\ transactionStatus' =
                  StatusSuccess("FHE decryption completed successfully!")
            /\ CallLoadOracleData
       ELSE /\ transactionStatus' = StatusError("Decryption failed")
            /\ UNCHANGED << chainData, loadVars, viewVars >>
    /\ decPc' = "idle"
    /\ decId' = 0
    /\ decData' = NoRecord
    /\ UNCHANGED << chainKeys, appNow, subVars, aggVars >>

NextApp ==
    \/ \E k \in RecordIds, plain \in Plaintexts, timestamp \in appNow..MaxTime,
          written \in BOOLEAN :
          SubmitStoreRecord(k, plain, timestamp, written)
          /\ UNCHANGED outsideApp
    \/ \E k \in RecordIds : SubmitReadKeys(k) /\ UNCHANGED outsideApp
    \/ \E k \in RecordIds, written \in BOOLEAN :
          SubmitWriteKeys(k, written) /\ UNCHANGED outsideApp
    \/ \E a \in AggRuns : AggregateStart(a) /\ UNCHANGED outsideApp
    \/ \E a \in AggRuns, gotContract \in BOOLEAN :
          AggregateReadKeys(a, gotContract) /\ UNCHANGED outsideApp
    \/ \E a \in AggRuns : AggregateReadRecord(a) /\ UNCHANGED outsideApp
    \/ \E a \in AggRuns, written \in BOOLEAN :
          AggregateWriteRecord(a, written) /\ UNCHANGED outsideApp
    \/ \E a \in AggRuns : AggregateFinish(a) /\ UNCHANGED outsideApp
    \/ LoadBegin /\ UNCHANGED outsideApp
    \/ \E answer \in LoadAnswers : LoadReadKeys(answer) /\ UNCHANGED outsideApp
    \/ \E readable \in BOOLEAN : LoadReadRecord(readable) /\ UNCHANGED outsideApp
    \/ LoadFinish /\ UNCHANGED outsideApp

SpecApp == Init /\ [][NextApp]_appVars

(***************************************************************************)
(* The frontend with its Decrypt button.  decryptData runs beside          *)
(* submitData, the aggregateData runs and loadOracleData; the value typed  *)
(* into the submit form is the one of DecryptInputs and every record read  *)
(* by loadOracleData parses, the failures of those two steps being         *)
(* followed under SpecApp.                                                 *)
(***************************************************************************)
DecryptInputs == {"a"}

NextAppDecrypt ==
    \/ \E k \in RecordIds, plain \in DecryptInputs,
          timestamp \in appNow..MaxTime, written \in BOOLEAN :
          SubmitStoreRecord(k, plain, timestamp, written)
          /\ UNCHANGED outsideApp
    \/ \E k \in RecordIds : SubmitReadKeys(k) /\ UNCHANGED outsideApp
    \/ \E k \in RecordIds, written \in BOOLEAN :
          SubmitWriteKeys(k, written) /\ UNCHANGED outsideApp
    \/ \E a \in AggRuns : AggregateStart(a) /\ UNCHANGED outsideApp
    \/ \E a \in AggRuns, gotContract \in BOOLEAN :
          AggregateReadKeys(a, gotContract) /\ UNCHANGED outsideApp
    \/ \E a \in AggRuns : AggregateReadRecord(a) /\ UNCHANGED outsideApp
    \/ \E a \in AggRuns, written \in BOOLEAN :
          AggregateWriteRecord(a, written) /\ UNCHANGED outsideApp
    \/ \E a \in AggRuns : AggregateFinish(a) /\ UNCHANGED outsideApp
    \/ \E dataId \in RecordIds : DecryptStart(dataId) /\ UNCHANGED outsideApp
    \/ \E gotContract \in BOOLEAN :
          DecryptReadRecord(gotContract) /\ UNCHANGED outsideApp
    \/ \E written \in BOOLEAN : DecryptWriteRecord(written) /\ UNCHANGED outsideApp
    \/ LoadBegin /\ UNCHANGED outsideApp
    \/ \E answer \in LoadAnswers : LoadReadKeys(answer) /\ UNCHANGED outsideApp
    \/ LoadReadRecord(TRUE) /\ UNCHANGED outsideApp
    \/ LoadFinish /\ UNCHANGED outsideApp

SpecAppDecrypt == Init /\ [][NextAppDecrypt]_appVars

(***************************************************************************)
(* The contract and the frontend side by side.  The frontend calls no      *)
(* function of EncryptedOracleFHE and the contract reads nothing of the    *)
(* frontend's store, so neither can enable, disable or change a step of    *)
(* the other.  The behaviours followed are those in which the contract is  *)
(* used first and the frontend afterwards, the frontend starting once a    *)
(* read of an id that was never submitted has returned, the one data point *)
(* of the contract holding the first handle, submitted at the last instant *)
(* of the clock.                                                           *)
(***************************************************************************)
allVars == << vars, appVars >>

ContractSettled ==
    /\ lastCall.op = "getDecryptedData"
    /\ dataCount = 1
    /\ lastCall.dataId > dataCount
    /\ requestCounter = 1
    /\ now = MaxTime
    /\ \A encryptedValue \in Handles :
          encryptedData[1].encryptedValue <= encryptedValue

NextBoth ==
    \/ AppInit /\ Next
    \/ ContractSettled /\ NextApp

SpecBoth == Init /\ [][NextBoth]_allVars

(***************************************************************************)
(* The dashboard (part_001).  Its handlers are async functions of a React  *)
(* component: a handler reads the state variable dataItems of the render   *)
(* in which it was started, while the updater form `setDataItems(prev =>   *)
(* ..)` is applied to the state of the moment.                             *)
(***************************************************************************)
\* onWalletSelect: a wallet is chosen in the selector.
onWalletSelect ==
    /\ ~account
    /\ account' = TRUE
    /\ UNCHANGED << dataItems, adding, addPc, addedIds, decryptPc,
                    decryptClosure, loadDataPc, loadDataEnded, dashIsRefreshing,
                    dashStatus >>

onDisconnect ==
    /\ account
    /\ account' = FALSE
    /\ UNCHANGED << dataItems, adding, addPc, addedIds, decryptPc,
                    decryptClosure, loadDataPc, loadDataEnded, dashIsRefreshing,
                    dashStatus >>

\* The DataItem of addData; its key and timestamp are shown and read by no
\* handler.
NewItem(id, plain) ==
    [id |-> id, encryptedValue |-> SimulatedEncrypt(plain),
     status |-> "encrypted"]

\* `${Date.now()}`: an id no earlier item carries.
FreshItemId == CHOOSE id \in ItemIds \ addedIds :
                  \A other \in ItemIds \ addedIds : id <= other

\* A click on the submit button of the add dialog, disabled while adding.
AddDataStart ==
    /\ account
    /\ ~adding
    /\ addedIds # ItemIds
    /\ adding' = TRUE
    /\ addPc' = "store"
    /\ dashStatus' = StatusPending("Encrypting data with FHE...")
    /\ UNCHANGED << account, dataItems, addedIds, decryptPc, decryptClosure,
                    loadDataPc, loadDataEnded, dashIsRefreshing >>

\* `btoa(newData.value)` and `await contract.setData(..)`, then the new item
\* is put in front of the list; stored is FALSE when btoa throws, as it
\* does on a value with a character outside Latin-1.
AddDataStore(plain, stored) ==
    /\ addPc = "store"
    /\ IF stored
       THEN /\ dataItems' = << NewItem(FreshItemId, plain) >> \o dataItems
            /\ addedIds' = addedIds \cup {FreshItemId}
            /\ dashStatus' =
                  StatusSuccess("Data encrypted and stored securely!")
       ELSE /\ dashStatus' = StatusError("Submission failed")
            /\ UNCHANGED << dataItems, addedIds >>
    /\ adding' = FALSE
    /\ addPc' = "idle"
    /\ UNCHANGED << account, decryptPc, decryptClosure, loadDataPc,
                    loadDataEnded, dashIsRefreshing >>

\* `prev.map(item => item.id === id ? {...item, status} : item)`
SetItemStatus(items, id, status) ==
    [i \in 1..Len(items) |->
        IF items[i].id = id THEN [items[i] EXCEPT !.status = status]
        ELSE items[i]]

\* `atob(item.encryptedValue.replace("FHE-", ""))`
ItemCleartext(encryptedValue) ==
    IF encryptedValue[1] = "FHE-" THEN encryptedValue[2]
    ELSE "InvalidCharacterError"

\* `dataItems.map(item => ..)` of decryptData: the item id decrypted, the
\* others as they are in items.
DecryptItems(items, id) ==
    [i \in 1..Len(items) |->
        IF items[i].id = id
        THEN [id |-> items[i].id, encryptedValue |-> items[i].encryptedValue,
              status |-> "decrypted",
              decryptedValue |-> ItemCleartext(items[i].encryptedValue)]
        ELSE items[i]]

\* The rows that carry a Decrypt button.
DecryptableItems ==
    { dataItems[i].id : i \in { j \in 1..Len(dataItems) :
                                  dataItems[j].status = "encrypted" } }

\* A click on the Decrypt button of item id: the item is marked decrypting
\* and the handler waits; it keeps the dataItems of the render that drew
\* the button.  One run per item is followed at a time.
DecryptItemStart(id) ==
    /\ account
    /\ id \in DecryptableItems
    /\ decryptPc[id] = "idle"
    /\ dashStatus' = StatusPending("Decrypting data with FHE...")
    /\ dataItems' = SetItemStatus(dataItems, id, "decrypting")
    /\ decryptClosure' = [decryptClosure EXCEPT ![id] = dataItems]
    /\ decryptPc' = [decryptPc EXCEPT ![id] = "delay"]
    /\ UNCHANGED << account, adding, addPc, addedIds, loadDataPc,
                    loadDataEnded, dashIsRefreshing >>

\* After the delay: `setDataItems(updatedItems)`, updatedItems computed
\* from the dataItems the handler closed over.  Every encryptedValue is
\* "FHE-" followed by base64, so atob does not throw and the catch block
\* is not entered.
DecryptItemFinish(id) ==
    /\ decryptPc[id] = "delay"
    /\ dataItems' = DecryptItems(decryptClosure[id], id)
    /\ dashStatus' = StatusSuccess("Data decrypted successfully!")
    /\ decryptPc' = [decryptPc EXCEPT ![id] = "idle"]
    /\ decryptClosure' = [decryptClosure EXCEPT ![id] = << >>]
    /\ UNCHANGED << account, adding, addPc, addedIds, loadDataPc,
                    loadDataEnded, dashIsRefreshing >>

\* A click on Refresh Data, disabled while isRefreshing.
LoadDataBegin ==
    /\ ~dashIsRefreshing
    /\ loadDataPc = "idle"
    /\ dashIsRefreshing' = TRUE
    /\ loadDataPc' = "contract"
    /\ UNCHANGED << account, dataItems, adding, addPc, addedIds, decryptPc,
                    decryptClosure, loadDataEnded, dashStatus >>

\* getContractReadOnly and isAvailable: the two early returns, the catch
\* block, or on to the timer.
LoadDataContract(answer) ==
    /\ loadDataPc = "contract"
    /\ CASE answer = "available" ->
               /\ loadDataPc' = "timer"
               /\ UNCHANGED << dashIsRefreshing, loadDataEnded >>
         [] answer \in {"noContract", "unavailable"} ->
               /\ loadDataPc' = "idle"
               /\ loadDataEnded' = TRUE
               /\ UNCHANGED dashIsRefreshing
         [] answer = "throws" ->
               /\ loadDataPc' = "idle"
               /\ loadDataEnded' = TRUE
               /\ dashIsRefreshing' = FALSE
    /\ UNCHANGED << account, dataItems, adding, addPc, addedIds, decryptPc,
                    decryptClosure, dashStatus >>

\* A loadData that leaves the flag as it is when its timer has run out.
LoadDataFinish_KeepsFlag ==
    /\ loadDataPc = "timer"
    /\ loadDataPc' = "idle"
    /\ loadDataEnded' = TRUE
    /\ UNCHANGED << account, dataItems, adding, addPc, addedIds, decryptPc,
                    decryptClosure, dashIsRefreshing, dashStatus >>

\* The timer has run out: `setIsRefreshing(false)`.
LoadDataFinish ==
    /\ loadDataPc = "timer"
    /\ loadDataPc' = "idle"
    /\ loadDataEnded' = TRUE
    /\ dashIsRefreshing' = FALSE
    /\ UNCHANGED << account, dataItems, adding, addPc, addedIds, decryptPc,
                    decryptClosure, dashStatus >>

NextDashboard ==
    \/ onWalletSelect /\ UNCHANGED allVars
    \/ onDisconnect /\ UNCHANGED allVars
    \/ AddDataStart /\ UNCHANGED allVars
    \/ \E plain \in Plaintexts, stored \in BOOLEAN :
          AddDataStore(plain, stored) /\ UNCHANGED allVars
    \/ \E id \in ItemIds : DecryptItemStart(id) /\ UNCHANGED allVars
    \/ \E id \in ItemIds : DecryptItemFinish(id) /\ UNCHANGED allVars
    \/ LoadDataBegin /\ UNCHANGED allVars
    \/ \E answer \in LoadDataAnswers :
          LoadDataContract(answer) /\ UNCHANGED allVars
    \/ LoadDataFinish /\ UNCHANGED allVars

SpecDashboard == Init /\ [][NextDashboard]_dashVars

(***************************************************************************)
(* The two pages side by side.  The dashboard keeps its items in React     *)
(* state and calls its own contract functions, App.tsx those of            *)
(* ./contract: neither reads what the other writes.  The behaviours        *)
(* followed are those in which the dashboard is used first and App.tsx     *)
(* afterwards, App.tsx starting once a wallet is connected to the          *)
(* dashboard and a Refresh Data of its still empty list has ended.         *)
(***************************************************************************)
DashboardSettled ==
    /\ account
    /\ loadDataEnded
    /\ loadDataPc = "idle"
    /\ addPc = "idle"
    /\ addedIds = {}
    /\ ~dashStatus.visible

NextPages ==
    \/ AppInit /\ NextDashboard
    \/ DashboardSettled /\ NextApp

SpecPages == Init /\ [][NextPages]_<< appVars, dashVars >>

(***************************************************************************)
(* The reveal state of a target.  The contract stores the flag isRevealed  *)
(* and the correlation table; a target is RequestPending when a request    *)
(* issued for it is recorded and it is not revealed.                       *)
(***************************************************************************)
RevealState(dataId) ==
    IF decryptedData[dataId].isRevealed THEN "Revealed"
    ELSE IF \E r \in IssuedRequests : requestToDataId[r] = dataId
         THEN "RequestPending"
    ELSE "Hidden"

Rank(state) ==
    CASE state = "Hidden" -> 0
      [] state = "RequestPending" -> 1
      [] state = "Revealed" -> 2

\* The target a request id was issued for, from the record of its dispatch.
IssuedFor(requestId) ==
    LET i == CHOOSE i \in 1..Len(dispatched) :
                 dispatched[i].requestId = requestId
    IN  dispatched[i].dataId

\* Request ids recorded in the correlation table whose callback has not run.
Outstanding ==
    { r \in RequestIds : requestToDataId[r] # 0 /\ r \notin consumed }

SubmittedIds == { events[i].id : i \in EventIds("DataSubmitted") }

(***************************************************************************)
(* Claims                                                                  *)
(***************************************************************************)

\* C1: the ids assigned by submit are strictly increasing and unique (each
\* new id is greater than every id assigned before), and dataCount is
\* changed by a successful submit only and never decreases.
C1_IdsStrictlyIncreasing ==
    [][ /\ dataCount' >= dataCount
        /\ dataCount' # dataCount =>
              /\ lastCall'.op = "submitEncryptedData"
              /\ lastCall'.result = "ok"
        /\ (lastCall'.op = "submitEncryptedData" /\ lastCall'.result = "ok") =>
              /\ \A id \in SubmittedIds : id < lastCall'.newId
              /\ dataCount' = lastCall'.newId
              /\ SubmittedIds' = SubmittedIds \cup {lastCall'.newId}
      ]_vars

C1_Witness ==
    /\ lastCall.op = "submitEncryptedData"
    /\ lastCall.result = "ok"
    /\ Cardinality(SubmittedIds) = 2

\* C2: the reveal state of every target only moves forward
\* Hidden -> RequestPending -> Revealed; it never moves back.
C2_RevealStateOnlyForward ==
    [][ \A d \in DataIds : Rank(RevealState(d))' >= Rank(RevealState(d)) ]_vars

\* C3: a callback carrying a request id whose callback has already run to
\* its end is rejected with "Invalid request" and changes nothing, even
\* when its proof is valid and its payload well formed.
C3_ConsumedRequestRejected ==
    [][ ( /\ lastCall'.op = "decryptDataPoint"
          /\ lastCall'.requestId \in consumed
          /\ lastCall'.proof = "validProof"
          /\ AbiDecodable(lastCall'.cleartexts) )
          => (lastCall'.result = "Invalid request" /\ UNCHANGED storage) ]_vars

\* C4: once a target is revealed, no later operation changes its clear
\* value.
C4_ClearValueWrittenOnce ==
    [][ \A d \in DataIds :
          decryptedData[d].isRevealed =>
              decryptedData'[d].value = decryptedData[d].value ]_vars

\* C5: a request on a submitted data point that is RequestPending fails
\* with RequestAlreadyPending and changes nothing.
C5_PendingRequestRejected ==
    [][ ( /\ lastCall'.op = "requestDataDecryption"
          /\ lastCall'.dataId \in 1..dataCount
          /\ RevealState(lastCall'.dataId) = "RequestPending" )
          => ( /\ lastCall'.result = "RequestAlreadyPending"
               /\ UNCHANGED storage ) ]_vars

\* C6: at most one outstanding request id maps to any given target.
C6_OneOutstandingPerTarget ==
    \A r1, r2 \in Outstanding :
        requestToDataId[r1] = requestToDataId[r2] => r1 = r2

\* C7: a request on a target that is Revealed fails with "Already decrypted"
\* and changes nothing: no mapping, no dispatch, no event.
C7_RevealedRequestRejected ==
    [][ ( /\ lastCall'.op = "requestDataDecryption"
          /\ RevealState(lastCall'.dataId) = "Revealed" )
          => ( /\ lastCall'.result = "Already decrypted"
               /\ UNCHANGED storage ) ]_vars

C7_Witness ==
    /\ lastCall.op = "requestDataDecryption"
    /\ lastCall.result = "Already decrypted"
    /\ RevealState(lastCall.dataId) = "Revealed"

\* C8: a callback whose request id is not in the correlation table fails
\* with "Invalid request" whatever its payload and proof, and changes
\* nothing.
C8_UnknownRequestRejected ==
    [][ ( /\ lastCall'.op = "decryptDataPoint"
          /\ requestToDataId[lastCall'.requestId] = 0 )
          => ( /\ lastCall'.result = "Invalid request"
               /\ UNCHANGED storage ) ]_vars

C8_Witness ==
    /\ lastCall.op = "decryptDataPoint"
    /\ requestToDataId[lastCall.requestId] = 0
    /\ lastCall.proof = "invalidProof"
    /\ ~AbiDecodable(lastCall.cleartexts)
    /\ lastCall.result = "Invalid request"
    /\ dataCount > 0

\* C9: a callback for a known request id whose proof is rejected fails with
\* VerificationFailed and changes nothing: the target keeps its reveal state
\* (a RequestPending target stays RequestPending), no clear value is
\* written, the mapping is kept and no event is emitted.
C9_RejectedProofChangesNothing ==
    [][ ( /\ lastCall'.op = "decryptDataPoint"
          /\ requestToDataId[lastCall'.requestId] # 0
          /\ lastCall'.proof = "invalidProof" )
          => ( /\ lastCall'.result = "VerificationFailed"
               /\ UNCHANGED storage
               /\ \A d \in DataIds : RevealState(d)' = RevealState(d) ) ]_vars

C9_Witness ==
    /\ lastCall.op = "decryptDataPoint"
    /\ lastCall.proof = "invalidProof"
    /\ lastCall.result = "VerificationFailed"
    /\ AbiDecodable(lastCall.cleartexts)
    /\ RevealState(requestToDataId[lastCall.requestId]) = "RequestPending"

\* C10: a callback with a known request id, a valid proof and a decodable
\* payload runs to its end, reveals the target the request id was issued
\* for with the decoded value, touches no other target, and emits
\* DataDecrypted for that target.
C10_CallbackRevealsIssuedTarget ==
    [][ ( /\ lastCall'.op = "decryptDataPoint"
          /\ requestToDataId[lastCall'.requestId] # 0
          /\ lastCall'.proof = "validProof"
          /\ AbiDecodable(lastCall'.cleartexts) )
          => LET target == IssuedFor(lastCall'.requestId)
             IN  /\ lastCall'.result = "ok"
                 /\ decryptedData' = [decryptedData EXCEPT ![target] =
                       [value |-> lastCall'.cleartexts.low,
                        isRevealed |-> TRUE]]
                 /\ events' = Append(events, DataDecrypted(target)) ]_vars

C10_Witness ==
    /\ lastCall.op = "decryptDataPoint"
    /\ lastCall.result = "ok"
    /\ IssuedFor(lastCall.requestId) # lastCall.requestId
    /\ RevealState(IssuedFor(lastCall.requestId)) = "Revealed"
    /\ \E d \in DataIds : d # IssuedFor(lastCall.requestId)
                          /\ RevealState(d) = "RequestPending"

\* What a lookup of an id finds: nothing for an id never assigned by
\* submitEncryptedData, else the reveal state of the data point.
Category(dataId) ==
    IF dataId \in 1..dataCount THEN RevealState(dataId) ELSE "NotFound"

\* C11: the correlation table is injective and immutable: no two request
\* ids map to the same data point, and an entry once written never changes.
C11_CorrelationInjectiveImmutable ==
    [][ /\ \A r1, r2 \in RequestIds :
              ( /\ requestToDataId'[r1] \in 1..dataCount'
                /\ requestToDataId'[r1] = requestToDataId'[r2] ) => r1 = r2
        /\ \A r \in RequestIds :
              requestToDataId[r] # 0 =>
                  requestToDataId'[r] = requestToDataId[r] ]_vars

\* C12: a successful request on a Hidden target makes it RequestPending,
\* obtains a request id never returned before, records request id -> target,
\* dispatches the target's ciphertext under that request id and emits
\* DecryptionRequested(target).
C12_RequestOnHiddenTarget ==
    [][ ( /\ lastCall'.op = "requestDataDecryption"
          /\ RevealState(lastCall'.dataId) = "Hidden" )
          => LET target == lastCall'.dataId
                 reqId == lastCall'.reqId
             IN  /\ lastCall'.result = "ok"
                 /\ \A d \in DataIds :
                        d = target => RevealState(d)' = "RequestPending"
                 /\ \A i \in 1..Len(dispatched) :
                        dispatched[i].requestId # reqId
                 /\ requestToDataId' =
                        [requestToDataId EXCEPT ![reqId] = target]
                 /\ dispatched' = Append(dispatched,
                        [requestId |-> reqId,
                         ciphertexts |-> << encryptedData[target].encryptedValue >>,
                         dataId |-> target])
                 /\ events' = Append(events, DecryptionRequested(target))
                 /\ UNCHANGED << dataCount, encryptedData, decryptedData >>
      ]_vars

C12_Witness ==
    /\ lastCall.op = "requestDataDecryption"
    /\ lastCall.result = "ok"
    /\ lastCall.reqId = 2
    /\ lastCall.dataId \in 1..dataCount
    /\ requestToDataId[1] # lastCall.dataId
    /\ dispatched[2].ciphertexts[1] \in Handles
    /\ RevealState(lastCall.dataId) = "RequestPending"

\* C13: a decryption request by a sender that is not authorized for the
\* data id fails and changes nothing.
C13_OnlyAuthorizedRequests ==
    [][ ( /\ lastCall'.op = "requestDataDecryption"
          /\ ~Authorized(lastCall'.sender, lastCall'.dataId) )
          => ( /\ lastCall'.result # "ok"
               /\ UNCHANGED storage ) ]_vars

\* C14: an id whose reveal flag is false holds the zero clear value, and
\* the flag becomes true only in a callback that runs to its end for a
\* request id mapped to that id.
C14_ClearValueOnlyWhenRevealed ==
    /\ [](\A d \in DataIds :
            ~decryptedData[d].isRevealed => decryptedData[d].value = 0)
    /\ [][ \A d \in DataIds :
            (~decryptedData[d].isRevealed /\ decryptedData'[d].isRevealed)
              => ( /\ lastCall'.op = "decryptDataPoint"
                   /\ lastCall'.result = "ok"
                   /\ requestToDataId[lastCall'.requestId] = d ) ]_vars

C14_Witness ==
    /\ \E d \in DataIds : decryptedData[d].isRevealed
                          /\ decryptedData[d].value # 0
    /\ \E d \in 1..dataCount : RevealState(d) = "RequestPending"
                               /\ decryptedData[d].value = 0
    /\ lastCall.op = "decryptDataPoint"
    /\ lastCall.result = "ok"

\* C16: a successful submit stores one new data point under the new id,
\* with the given ciphertext and the block timestamp, Hidden and without a
\* clear value, and emits one DataSubmitted with the stored id and
\* timestamp.
C16_SubmitCreatesHiddenPoint ==
    [][ ( /\ lastCall'.op = "submitEncryptedData"
          /\ lastCall'.result = "ok" )
          => LET id == lastCall'.newId
             IN  /\ encryptedData' = [encryptedData EXCEPT ![id] =
                        [id |-> id,
                         encryptedValue |-> lastCall'.encryptedValue,
                         timestamp |-> now']]
                 /\ \A d \in DataIds :
                        d = id => RevealState(d)' = "Hidden"
                 /\ decryptedData'[id].value = 0
                 /\ events' = Append(events, DataSubmitted(id, now')) ]_vars

\* C17: the id, ciphertext and timestamp of a submitted data point are
\* never changed or removed by a later operation.
C17_SubmissionsImmutable ==
    [][ /\ dataCount' >= dataCount
        /\ \A d \in 1..dataCount :
              /\ encryptedData'[d] = encryptedData[d]
              /\ encryptedData[d].id = d ]_vars

C17_Witness ==
    /\ dataCount = 2
    /\ encryptedData[1].encryptedValue # encryptedData[2].encryptedValue
    /\ encryptedData[1].timestamp # encryptedData[2].timestamp
    /\ RevealState(1) = "Revealed"
    /\ lastCall.op = "submitEncryptedData"
    /\ lastCall.result = "ok"

\* C18: a callback for a known request id whose payload does not decode to
\* a uint32 fails and changes nothing; with a valid proof it fails with
\* DecodeError, which is not the failure of a rejected proof.
C18_UndecodablePayloadChangesNothing ==
    [][ ( /\ lastCall'.op = "decryptDataPoint"
          /\ requestToDataId[lastCall'.requestId] # 0
          /\ \/ lastCall'.cleartexts.len < AbiWord
             \/ lastCall'.cleartexts.high # 0 )
          => ( /\ lastCall'.result \in {"DecodeError", "VerificationFailed"}
               /\ lastCall'.proof = "validProof" =>
                      lastCall'.result = "DecodeError"
               /\ UNCHANGED storage
               /\ \A d \in DataIds : RevealState(d)' = RevealState(d) ) ]_vars

C18_Witness ==
    /\ lastCall.op = "decryptDataPoint"
    /\ lastCall.proof = "validProof"
    /\ lastCall.cleartexts.high # 0
    /\ lastCall.result = "DecodeError"
    /\ RevealState(requestToDataId[lastCall.requestId]) = "RequestPending"
    /\ decryptedData[requestToDataId[lastCall.requestId]].value = 0

\* C19: what getDecryptedData returns tells a never submitted id from a
\* submitted one, and tells Hidden, RequestPending and Revealed data points
\* from one another.
C19_ReadDistinguishesStates ==
    \A d1, d2 \in DataIds :
        Category(d1) # Category(d2) => ReadResult(d1) # ReadResult(d2)

\* The orders in which the ids of a key list can be given.
KeyOrders(keys) ==
    { p \in [1..Len(keys) -> {keys[i] : i \in 1..Len(keys)}] :
        \A i \in 1..Len(keys) : \E j \in 1..Len(keys) : p[j] = keys[i] }

\* C20: aggregating a non-empty key list gives the same result in whatever
\* order the keys are given, and an aggregation over an empty key list
\* fails (EmptyInput).
C20_AggregateOrderAndEmptyInput ==
    /\ [](\A p \in KeyOrders(chainKeys) :
            AggregateAll(chainData, p) = AggregateAll(chainData, chainKeys))
    /\ [][ \A a \in AggRuns :
             (aggPc[a] = "loop" /\ aggPc'[a] = "idle" /\ aggKeys[a] = << >>)
                => transactionStatus'.status = "error" ]_appVars

\* C21: aggregation is all-or-nothing: a run that meets a key without a
\* record aborts, and a run that ends in failure leaves no record it has
\* written marked "aggregated".
C21_AggregateAllOrNothing ==
    [][ \A a \in AggRuns :
          /\ ( /\ aggPc[a] = "loop"
               /\ aggIdx[a] <= Len(aggKeys[a])
               /\ chainData[aggKeys[a][aggIdx[a]]] = NoRecord )
               => (aggPc'[a] = "idle" /\ transactionStatus'.status = "error")
          /\ ( /\ aggPc[a] # "idle"
               /\ aggPc'[a] = "idle"
               /\ transactionStatus'.status = "error" )
               => \A k \in aggMarked[a] : chainData'[k].status = "pending"
      ]_appVars

\* C22: the stored key list is append-only and keeps insertion order: every
\* step leaves the ids already in the list where they are and at most adds
\* ids behind them.
C22_KeyListAppendOnly ==
    [][ /\ Len(chainKeys') >= Len(chainKeys)
        /\ \A i \in 1..Len(chainKeys) : chainKeys'[i] = chainKeys[i]
      ]_appVars

\* C23: when the id counter cannot be advanced, submit aborts with an
\* error and writes nothing: dataCount, the stored data points, the reveal
\* records and the event log are unchanged.
C23_OverflowAbortsSubmit ==
    [][ ( /\ lastCall'.op = "submitEncryptedData"
          /\ dataCount = MaxData )
          => ( /\ lastCall'.result = "Panic(0x11)"
               /\ UNCHANGED storage ) ]_vars

C23_Witness ==
    /\ lastCall.op = "submitEncryptedData"
    /\ lastCall.result = "Panic(0x11)"
    /\ dataCount = MaxData
    /\ Cardinality(SubmittedIds) = MaxData

\* C24: the reads have no side effects: a call of getDecryptedData, for
\* any id, and every step of a loadOracleData run leave the id counter, the
\* stored data points, the reveal records, the correlation table, the
\* stored key list and the stored records unchanged.
C24_ReadsHaveNoSideEffects ==
    [][ /\ (lastCall' # lastCall /\ lastCall'.op = "getDecryptedData")
              => UNCHANGED << storage, chainStore >>
        /\ (loadPc # "idle" /\ loadVars' # loadVars)
              => UNCHANGED << storage, chainStore >>
      ]_allVars

C24_Witness ==
    /\ lastCall.op = "getDecryptedData"
    /\ lastCall.dataId \notin 1..dataCount
    /\ dataCount > 0
    /\ loadPc = "idle"
    /\ ~isRefreshing
    /\ Len(oracleData) = 2
    /\ Len(chainKeys) = 2

\* C25: every target recorded in the correlation table is a submitted data
\* point (1 <= target <= dataCount), and a request for an id that was never
\* submitted records nothing.
C25_RecordedTargetsSubmitted ==
    /\ [](\A r \in RequestIds :
            requestToDataId[r] # 0 => requestToDataId[r] \in 1..dataCount)
    /\ [][ ( /\ lastCall'.op = "requestDataDecryption"
             /\ lastCall'.dataId \notin 1..dataCount )
             => UNCHANGED storage ]_vars

\* C26: every DataDecrypted(id) event in the log is preceded by a
\* DecryptionRequested(id) event for the same id.
C26_RevealPrecededByRequest ==
    \A i \in EventIds("DataDecrypted") :
        \E j \in EventIds("DecryptionRequested") :
            j < i /\ events[j].id = events[i].id

C26_Witness ==
    /\ lastCall.op = "decryptDataPoint"
    /\ lastCall.result = "ok"
    /\ \E i, j \in EventIds("DataDecrypted") : events[i].id # events[j].id
    /\ events[Len(events)].name = "DataDecrypted"

\* C27: nothing cancels a request: a target that is RequestPending stays
\* RequestPending in every step, except a step that reveals it, which is a
\* callback for a request id mapped to it that passes the unknown-request,
\* verification and decoding checks.
C27_NoCancelOfPendingRequest ==
    [][ \A d \in DataIds :
          RevealState(d) = "RequestPending" =>
              \/ RevealState(d)' = "RequestPending"
              \/ /\ RevealState(d)' = "Revealed"
                 /\ lastCall'.op = "decryptDataPoint"
                 /\ lastCall'.result = "ok"
                 /\ requestToDataId[lastCall'.requestId] = d
                 /\ lastCall'.proof = "validProof"
                 /\ AbiDecodable(lastCall'.cleartexts) ]_vars

C27_Witness ==
    /\ lastCall.op = "submitEncryptedData"
    /\ lastCall.result = "ok"
    /\ RevealState(lastCall.newId) = "RequestPending"
    /\ \E d \in DataIds : RevealState(d) = "Revealed"

\* C28: a request returns without its callback having run: right after it
\* the target is not Revealed and the new request id is not consumed.  The
\* entry of an issued request id stays the target it was issued for,
\* whatever is submitted or requested in between, and the callback that
\* runs to its end for it reveals that target.
C28_RequestReturnsBeforeCallback ==
    /\ [](\A r \in IssuedRequests : requestToDataId[r] = IssuedFor(r))
    /\ [][ /\ ( /\ lastCall'.op = "requestDataDecryption"
                /\ lastCall'.result = "ok" )
                => /\ ~decryptedData'[lastCall'.dataId].isRevealed
                   /\ lastCall'.reqId \notin consumed'
                   /\ consumed' = consumed
           /\ ( /\ lastCall'.op = "decryptDataPoint"
                /\ lastCall'.result = "ok" )
                => /\ lastCall'.requestId \in IssuedRequests
                   /\ decryptedData'[IssuedFor(lastCall'.requestId)].isRevealed
                   /\ events' = Append(events,
                          DataDecrypted(IssuedFor(lastCall'.requestId)))
         ]_vars

C28_Witness ==
    /\ lastCall.op = "decryptDataPoint"
    /\ lastCall.result = "ok"
    /\ lastCall.requestId = 1
    /\ requestCounter = 3
    /\ IssuedFor(2) # IssuedFor(1)
    /\ ~decryptedData[IssuedFor(2)].isRevealed
    /\ \E i, j, k \in 1..Len(events) :
          /\ i < j /\ j < k /\ k < Len(events)
          /\ events[i] = DecryptionRequested(IssuedFor(1))
          /\ events[j].name = "DataSubmitted"
          /\ events[k] = DecryptionRequested(IssuedFor(2))
          /\ events[Len(events)] = DataDecrypted(IssuedFor(1))

\* C29: when the decryption oracle goes on delivering, for every issued
\* request, a callback with a valid proof and a well-formed payload, every
\* target for which a request succeeded is eventually Revealed: a callback
\* for it runs to its end and emits DataDecrypted.
C29_FairDeliveryReveals ==
    \A d \in DataIds :
        (\E r \in IssuedRequests : IssuedFor(r) = d)
            ~> (\E i \in EventIds("DataDecrypted") : events[i].id = d)

\* C30: operations on one target do not touch other targets: a request
\* for t, and a callback whose request id maps to t, change neither the
\* reveal flag nor the clear value of any target other than t, nor
\* dataCount, nor any stored ciphertext.
C30_OtherTargetsUntouched ==
    [][ /\ lastCall'.op = "requestDataDecryption"
           => /\ \A d \in DataIds \ {lastCall'.dataId} :
                     decryptedData'[d] = decryptedData[d]
              /\ UNCHANGED << dataCount, encryptedData >>
        /\ lastCall'.op = "decryptDataPoint"
           => /\ \A d \in DataIds \ {requestToDataId[lastCall'.requestId]} :
                     decryptedData'[d] = decryptedData[d]
              /\ UNCHANGED << dataCount, encryptedData >>
      ]_vars

C30_Witness ==
    /\ lastCall.op = "decryptDataPoint"
    /\ lastCall.result = "ok"
    /\ dataCount = 2
    /\ \E d \in 1..dataCount :
          /\ d # requestToDataId[lastCall.requestId]
          /\ decryptedData[d].isRevealed
          /\ decryptedData[d].value # decryptedData[requestToDataId[lastCall.requestId]].value

\* C31: no data point is ever assigned id 0, the value the callback reads
\* as "no such request": slot 0 is never written or revealed, and a callback
\* for a request id issued for dataId 0 always fails with "Invalid request"
\* and changes nothing.
C31_IdZeroNeverATarget ==
    /\ [](/\ 0 \notin SubmittedIds
          /\ encryptedData[0] = ZeroEncrypted
          /\ decryptedData[0] = ZeroDecrypted)
    /\ [][ ( /\ lastCall'.op = "decryptDataPoint"
             /\ lastCall'.requestId \in IssuedRequests
             /\ IssuedFor(lastCall'.requestId) = 0 )
             => ( /\ lastCall'.result = "Invalid request"
                  /\ UNCHANGED storage ) ]_vars

C31_Witness ==
    /\ lastCall.op = "decryptDataPoint"
    /\ lastCall.requestId \in IssuedRequests
    /\ IssuedFor(lastCall.requestId) = 0
    /\ lastCall.proof = "validProof"
    /\ AbiDecodable(lastCall.cleartexts)
    /\ lastCall.result = "Invalid request"
    /\ dataCount = MaxData

(***************************************************************************)
(* The life of a stored record (App.tsx)                                   *)
(***************************************************************************)
\* The order of the values of OracleData.status.
StatusRank(status) ==
    CASE status = "pending" -> 0
      [] status = "aggregated" -> 1
      [] status = "decrypted" -> 2

\* C32: the stored status of a record only moves forward, pending ->
\* aggregated -> decrypted, under any interleaving of submitData,
\* aggregateData and decryptData runs: a record stored as decrypted is
\* never written back to aggregated or pending, and its decryptedValue
\* is never lost.
C32_StoredStatusOnlyForward ==
    [][ \A k \in RecordIds :
           chainData[k] # NoRecord =>
              /\ chainData'[k] # NoRecord
              /\ StatusRank(chainData'[k].status)
                    >= StatusRank(chainData[k].status)
              /\ chainData[k].status = "decrypted" =>
                    /\ "decryptedValue" \in DOMAIN chainData'[k]
                    /\ chainData'[k].decryptedValue
                          = chainData[k].decryptedValue ]_appVars

\* C33: the key index never references a missing record: in every state
\* reachable by submitData runs, those that fail between their two writes
\* included, every id listed in "oracle_keys" has a record stored under
\* "oracle_<id>".
C33_ListedKeysHaveRecords ==
    \A i \in 1..Len(chainKeys) : chainData[chainKeys[i]] # NoRecord

\* One run has listed its key; another has stored its record and failed on
\* the write of the key list, leaving an unlisted record behind.
C33_Witness ==
    /\ Len(chainKeys) = 1
    /\ \E k \in RecordIds :
          /\ subPc[k] = "failed"
          /\ chainData[k] # NoRecord
          /\ \A i \in 1..Len(chainKeys) : chainKeys[i] # k

(***************************************************************************)
(* The dashboard's item list and the refresh flags                         *)
(***************************************************************************)
\* C34: in the dashboard every item that enters "decrypting" reaches
\* "decrypted" or returns to "encrypted", under any interleaving of
\* decryptData calls on different items: once all decryptData calls have
\* finished, no item is left in "decrypting".
C34_NoItemLeftDecrypting ==
    (\A id \in ItemIds : decryptPc[id] = "idle")
        => \A i \in 1..Len(dataItems) : dataItems[i].status # "decrypting"

\* C35: in the dashboard an item added by addData is never removed from
\* the item list: also an item added while a decryptData call is in flight
\* is in dataItems after that call has completed.
C35_AddedItemsStay ==
    \A id \in addedIds : \E i \in 1..Len(dataItems) : dataItems[i].id = id

\* No loadOracleData run is under way and isRefreshing of App.tsx is false.
AppRefreshReleased == loadPc = "idle" => ~isRefreshing

\* No loadData run is under way and isRefreshing of the dashboard is false.
DashboardRefreshReleased == loadDataPc = "idle" => ~dashIsRefreshing

====
